---- MODULE Spec2Model ----
(***************************************************************************)
(* Startup configuration resolution of cmd/common-main.go:                 *)
(*   newConfigDirFromCtx  - layered resolution of a directory option       *)
(*   handleCommonEnvVars  - domains, public IPs, credentials, KMS backend  *)
(*   getTLSConfig         - discovery of the certificate topology          *)
(* Each function runs once, synchronously, on the startup path; each has   *)
(* its own specification (SpecDir, SpecEnv, SpecTLS) over its own state.   *)
(***************************************************************************)
EXTENDS Integers, Sequences, FiniteSets, TLC

VARIABLES
    \* ---- handleCommonEnvVars
    envPc,              \* section of handleCommonEnvVars about to run
    domains,            \* local `domains`, split into tokens (line 264/266)
    globalDomainNames,  \* package variable globalDomainNames
    publicIPs,          \* local `publicIPs`, split into tokens (line 283/285)
    addrs,              \* local `addrs`: net.LookupHost's answer, by hostname (line 290)
    domainIPs,          \* the set handed to updateDomainIPs
    ipsUpdated,         \* TRUE once updateDomainIPs has been called
    kmsEnv,             \* KMS_SECRET_KEY, KMS_MASTER_KEY, KES_ENDPOINT as read
    GlobalKMS,          \* package variable GlobalKMS
    kmsAssigned,        \* number of assignments made to GlobalKMS
    kmsSteps,           \* selection blocks entered, in order
    envFatal,           \* message of the logger.Fatal that ended the process
    envLog,             \* non-fatal logger.LogIf messages
    \* ---- newConfigDirFromCtx
    dirPc,
    ctx,                \* what the cli context answers for the option
    defaultDir,         \* output of getDefaultDir()
    absOk,              \* filepath.Abs succeeds
    mkdirOk,            \* mkdirAllIgnorePerm succeeds
    dirPath,            \* ConfigDir.path of the result
    dirSet,             \* second result
    dirFatal,
    \* ---- getTLSConfig
    tlsPc,
    rootPublicCert,     \* certs root holds public.crt as a file
    rootPrivateKey,     \* certs root holds private.key as a file
    files,              \* entries of the certs root, in Readdir order
    idx,                \* loop position in files
    manager,            \* labels held by the certificate manager
    managerBuilt,       \* certs.NewManager returned a manager
    attempted,          \* labels AddCertificate was called for
    examined,           \* labels the loop has looked at, in order
    tlsLog,             \* labels a warning was logged for
    err,                \* local err
    ret                 \* the four results

envVars == <<envPc, domains, globalDomainNames, publicIPs, addrs, domainIPs,
             ipsUpdated, kmsEnv, GlobalKMS, kmsAssigned, kmsSteps, envFatal, envLog>>
dirVars == <<dirPc, ctx, defaultDir, absOk, mkdirOk, dirPath, dirSet, dirFatal>>
tlsVars == <<tlsPc, rootPublicCert, rootPrivateKey, files, idx, manager, managerBuilt,
             attempted, examined, tlsLog, err, ret>>
vars == <<envVars, dirVars, tlsVars>>

----------------------------------------------------------------------------
(* Bounds *)

MaxDomains == 3
MaxEndpoints == 2
MaxEntries == 2

----------------------------------------------------------------------------
(* Strings as sequences of characters, ordered by byte value *)

Ord(c) == CASE c = "." -> 46 [] c = "C" -> 67 [] c = "A" -> 65
            [] c = "a" -> 97 [] c = "b" -> 98 [] c = "c" -> 99
            [] c = "d" -> 100 [] c = "s" -> 115 [] OTHER -> 0

RECURSIVE StrLess(_, _)
StrLess(a, b) ==
    IF a = <<>> THEN b # <<>>
    ELSE IF b = <<>> THEN FALSE
    ELSE IF Head(a) = Head(b) THEN StrLess(Tail(a), Tail(b))
    ELSE Ord(Head(a)) < Ord(Head(b))

RECURSIVE Insert(_, _)
Insert(x, s) ==
    IF s = <<>> THEN <<x>>
    ELSE IF StrLess(Head(s), x) THEN <<Head(s)>> \o Insert(x, Tail(s))
    ELSE <<x>> \o s

RECURSIVE SortStrings(_)
SortStrings(s) == IF s = <<>> THEN <<>> ELSE Insert(Head(s), SortStrings(Tail(s)))

HasSuffix(s, suf) ==
    /\ Len(suf) <= Len(s)
    /\ SubSeq(s, Len(s) - Len(suf) + 1, Len(s)) = suf

HasPrefix(s, pre) == Len(pre) <= Len(s) /\ SubSeq(s, 1, Len(pre)) = pre

SeqsUpTo(S, n) == UNION {[1..k -> S] : k \in 0..n}

Range(s) == {s[i] : i \in 1..Len(s)}

----------------------------------------------------------------------------
(* handleCommonEnvVars: MINIO_DOMAIN (lines 264-281) *)

NoFatal == ""

\* Tokens MINIO_DOMAIN may hold: six well-formed names and one with an empty label.
DomainTokens ==
    { <<"c">>, <<"a", ".", "c">>, <<"b", ".", "c">>, <<"a", "c">>,
      <<"d">>, <<"a", ".", "d">>, <<".", "c">> }

\* dns2.IsDomainName: a non-empty name none of whose labels is empty.
IsDomainName(s) ==
    /\ s # <<>>
    /\ s[1] # "."
    /\ \A i \in 1..(Len(s) - 1) : ~(s[i] = "." /\ s[i + 1] = ".")

\* The longest string that is a suffix of both a and b.
RECURSIVE CommonSuffix(_, _)
CommonSuffix(a, b) ==
    IF a = <<>> \/ b = <<>> THEN <<>>
    ELSE IF a[Len(a)] # b[Len(b)] THEN <<>>
    ELSE CommonSuffix(SubSeq(a, 1, Len(a) - 1), SubSeq(b, 1, Len(b) - 1))
             \o <<a[Len(a)]>>

\* lcpSuffix: the longest common suffix of all the strings of the list.
RECURSIVE lcpSuffix(_)
lcpSuffix(strs) ==
    IF strs = <<>> THEN <<>>
    ELSE IF Len(strs) = 1 THEN strs[1]
    ELSE CommonSuffix(Head(strs), lcpSuffix(Tail(strs)))

\* Index of the first token IsDomainName rejects, 0 when there is none.
FirstInvalid(toks) ==
    IF \A i \in 1..Len(toks) : IsDomainName(toks[i]) THEN 0
    ELSE CHOOSE i \in 1..Len(toks) :
            /\ ~IsDomainName(toks[i])
            /\ \A j \in 1..(i - 1) : IsDomainName(toks[j])

\* Lines 275-280: the check made on the sorted names.
OverlapNoMinimum(names) == \E i \in 1..Len(names) : names[i] = lcpSuffix(names)

Overlap(names) ==
    \E i \in 1..Len(names) : names[i] = lcpSuffix(names) /\ Len(names) > 1

\* Lines 265-281 on the tokens of MINIO_DOMAIN, starting from the names `names0`.
ValidateDomains(toks, names0) ==
    IF Len(toks) = 0 THEN [names |-> names0, fatal |-> NoFatal]
    ELSE LET bad == FirstInvalid(toks) IN
         IF bad # 0
         THEN [names |-> names0 \o SubSeq(toks, 1, bad - 1),
               fatal |-> "Invalid MINIO_DOMAIN value"]
         ELSE LET sorted == SortStrings(names0 \o toks) IN
              IF Overlap(sorted)
              THEN [names |-> sorted, fatal |-> "Overlapping domains not allowed"]
              ELSE [names |-> sorted, fatal |-> NoFatal]

----------------------------------------------------------------------------
(* handleCommonEnvVars: MINIO_PUBLIC_IPS (lines 283-309) *)

IPs == {"10.0.0.1", "10.0.0.2"}
Hostnames == {"host1", "host2"}
LookupError == {"no such host"}

\* net.ParseIP(endpoint) != nil
ParseIP(endpoint) == endpoint \in IPs

\* What a resolver may answer: an error, or one or more addresses.
Resolvers == [Hostnames -> {LookupError} \cup (SUBSET IPs \ {{}})]

\* Index of the first endpoint whose lookup fails, 0 when there is none.
FirstLookupFailure(eps, dns) ==
    LET failing == {i \in 1..Len(eps) : ~ParseIP(eps[i]) /\ dns[eps[i]] = LookupError}
    IN IF failing = {} THEN 0
       ELSE CHOOSE i \in failing : \A j \in failing : i <= j

\* Lines 288-298, one endpoint: what the loop body adds to domainIPs.
AddedFor(endpoint, dns) ==
    (IF ~ParseIP(endpoint) THEN dns[endpoint] ELSE {}) \cup {endpoint}

\* Lines 285-300 on the tokens of MINIO_PUBLIC_IPS.
ResolvePublicIPs(eps, dns) ==
    LET bad == FirstLookupFailure(eps, dns) IN
    IF bad # 0
    THEN [ips |-> {}, updated |-> FALSE,
          fatal |-> "invalid entry found in MINIO_PUBLIC_IPS"]
    ELSE [ips |-> UNION {AddedFor(eps[i], dns) : i \in 1..Len(eps)},
          updated |-> TRUE, fatal |-> NoFatal]

----------------------------------------------------------------------------
(* handleCommonEnvVars: KMS backend (lines 334-384) *)

Unset == "unset"
SecretKeyValues == {Unset, "valid", "unparsable"}
MasterKeyValues == {Unset, "id:hexkey", "no colon", "not hex", "bad key"}
KESEndpointValues == {Unset, "urls", "bad url", "unreachable"}
KMSEnvs == [secretKey : SecretKeyValues, masterKey : MasterKeyValues,
            kesEndpoint : KESEndpointValues]

\* env.IsSet
IsSet(v) == v # Unset

AmbiguousSecret == "ambigious KMS configuration: KMS_SECRET_KEY and KES_ENDPOINT"
AmbiguousMaster == "ambigious KMS configuration: KMS_MASTER_KEY and KES_ENDPOINT"
DeprecatedMasterKey == "legacy KMS configuration"

KMSStart == [kms |-> "None", assigned |-> 0, steps |-> <<>>, fatal |-> NoFatal,
             log |-> <<>>]

\* Lines 334-342: the fatal ambiguity checks, in the order they are made.
AmbiguityNoMasterCheck(e) ==
    IF IsSet(e.secretKey) /\ IsSet(e.kesEndpoint) THEN AmbiguousSecret ELSE NoFatal

AmbiguityChecks(e) ==
    IF IsSet(e.secretKey) /\ IsSet(e.kesEndpoint) THEN AmbiguousSecret
    ELSE IF IsSet(e.secretKey) /\ IsSet(e.kesEndpoint) THEN AmbiguousSecret
    ELSE IF IsSet(e.masterKey) /\ IsSet(e.kesEndpoint) THEN AmbiguousMaster
    ELSE NoFatal

\* Lines 343-348: the static secret key.
StaticSecretBlock(e, st) ==
    LET st1 == [st EXCEPT !.steps = Append(@, "StaticSecret")] IN
    IF e.secretKey # "valid"
    THEN [st1 EXCEPT !.fatal = "Unable to parse the KMS secret key"]
    ELSE [st1 EXCEPT !.kms = "StaticSecret", !.assigned = @ + 1]

\* Lines 349-365: the deprecated master key.
LegacyMasterKeyBlock(e, st) ==
    LET st1 == [st EXCEPT !.steps = Append(@, "LegacyMasterKey"),
                          !.log = Append(@, DeprecatedMasterKey)] IN
    IF e.masterKey = "no colon"
    THEN [st1 EXCEPT !.fatal = "invalid KMS_MASTER_KEY"]
    ELSE IF e.masterKey = "not hex"
    THEN [st1 EXCEPT !.fatal = "Unable to parse the KMS secret key"]
    ELSE IF e.masterKey = "bad key"
    THEN [st1 EXCEPT !.fatal = "Unable to parse the KMS secret key"]
    ELSE [st1 EXCEPT !.kms = "LegacyMasterKey", !.assigned = @ + 1]

\* Lines 343-365: if secret key ... else if master key ...
LocalKeyBothBlocks(e, st) ==
    LET st1 == IF IsSet(e.secretKey) THEN StaticSecretBlock(e, st) ELSE st IN
    IF st1.fatal # NoFatal THEN st1
    ELSE IF IsSet(e.masterKey) THEN LegacyMasterKeyBlock(e, st1)
    ELSE st1

LocalKeyBlocks(e, st) ==
    IF IsSet(e.secretKey) THEN StaticSecretBlock(e, st)
    ELSE IF IsSet(e.masterKey) THEN LegacyMasterKeyBlock(e, st)
    ELSE st

\* Lines 366-384: the remote endpoint.
KESBlock(e, st) ==
    IF ~IsSet(e.kesEndpoint) THEN st
    ELSE LET st1 == [st EXCEPT !.steps = Append(@, "RemoteEndpoint")] IN
         IF e.kesEndpoint = "bad url"
         THEN [st1 EXCEPT !.fatal = "Unable to parse the KES endpoints"]
         ELSE IF e.kesEndpoint = "unreachable"
         THEN [st1 EXCEPT !.fatal = "Unable to initialize a connection to KES"]
         ELSE [st1 EXCEPT !.kms = "RemoteEndpoint", !.assigned = @ + 1]

\* Lines 334-384.
ResolveKMS(e) ==
    LET ambiguous == AmbiguityChecks(e) IN
    IF ambiguous # NoFatal THEN [KMSStart EXCEPT !.fatal = ambiguous]
    ELSE LET st == LocalKeyBlocks(e, KMSStart) IN
         IF st.fatal # NoFatal THEN st ELSE KESBlock(e, st)

----------------------------------------------------------------------------
(* handleCommonEnvVars as a sequence of sections *)

NotLookedUp == [h \in Hostnames |-> LookupError]
NoKMSEnv == [secretKey |-> Unset, masterKey |-> Unset, kesEndpoint |-> Unset]

EnvInit ==
    /\ envPc = "worm"
    /\ domains = <<>>
    /\ globalDomainNames = <<>>
    /\ publicIPs = <<>>
    /\ addrs = NotLookedUp
    /\ domainIPs = {}
    /\ ipsUpdated = FALSE
    /\ kmsEnv = NoKMSEnv
    /\ GlobalKMS = "None"
    /\ kmsAssigned = 0
    /\ kmsSteps = <<>>
    /\ envFatal = NoFatal
    /\ envLog = <<>>

\* Lines 246-262: MINIO_WORM, MINIO_BROWSER, MINIO_FS_OSYNC.
EnvFlags ==
    /\ envPc = "worm"
    /\ \E fatal \in {NoFatal, "Invalid worm configuration", "WORM is deprecated",
                     "Invalid MINIO_BROWSER value", "Invalid MINIO_FS_OSYNC value"} :
          /\ envFatal' = fatal
          /\ envPc' = IF fatal = NoFatal THEN "domains" ELSE "fatal"
    /\ UNCHANGED <<domains, globalDomainNames, publicIPs, addrs, domainIPs, ipsUpdated,
                   kmsEnv, GlobalKMS, kmsAssigned, kmsSteps, envLog>>

\* Lines 264-281.
EnvDomains ==
    /\ envPc = "domains"
    /\ \E toks \in SeqsUpTo(DomainTokens, MaxDomains) :
          LET r == ValidateDomains(toks, globalDomainNames) IN
          /\ domains' = toks
          /\ globalDomainNames' = r.names
          /\ envFatal' = r.fatal
          /\ envPc' = IF r.fatal = NoFatal THEN "publicIPs" ELSE "fatal"
    /\ UNCHANGED <<publicIPs, addrs, domainIPs, ipsUpdated, kmsEnv, GlobalKMS,
                   kmsAssigned, kmsSteps, envLog>>

\* Lines 283-300: MINIO_PUBLIC_IPS is not empty. The local `domains` is dead from here.
EnvPublicIPs ==
    /\ envPc = "publicIPs"
    /\ \E eps \in SeqsUpTo(IPs \cup Hostnames, MaxEndpoints) \ {<<>>}, dns \in Resolvers :
          LET r == ResolvePublicIPs(eps, dns) IN
          /\ publicIPs' = eps
          /\ addrs' = dns
          /\ domainIPs' = r.ips
          /\ ipsUpdated' = r.updated
          /\ envFatal' = r.fatal
          /\ envPc' = IF r.fatal = NoFatal THEN "credentials" ELSE "fatal"
    /\ domains' = <<>>
    /\ UNCHANGED <<globalDomainNames, kmsEnv, GlobalKMS, kmsAssigned, kmsSteps, envLog>>

\* Lines 301-309: MINIO_PUBLIC_IPS is empty; local interfaces and endpoint hostnames.
EnvLocalIPs ==
    /\ envPc = "publicIPs"
    /\ \E localIP4 \in SUBSET IPs, hosts \in SUBSET Hostnames :
          /\ domainIPs' = localIP4 \cup hosts
          /\ ipsUpdated' = TRUE
    /\ envPc' = "credentials"
    /\ domains' = <<>>
    /\ UNCHANGED <<globalDomainNames, publicIPs, addrs, kmsEnv, GlobalKMS, kmsAssigned,
                   kmsSteps, envFatal, envLog>>

\* Lines 311-332: MINIO_UPDATE and the credential pairs. The locals `publicIPs`
\* and `addrs` are dead from here.
EnvCredentials ==
    /\ envPc = "credentials"
    /\ \E fatal \in {NoFatal, "Unable to validate credentials"} :
          /\ envFatal' = fatal
          /\ envPc' = IF fatal = NoFatal THEN "kms" ELSE "fatal"
    /\ publicIPs' = <<>>
    /\ addrs' = NotLookedUp
    /\ UNCHANGED <<domains, globalDomainNames, domainIPs, ipsUpdated, kmsEnv, GlobalKMS,
                   kmsAssigned, kmsSteps, envLog>>

\* Lines 334-384.
EnvKMS ==
    /\ envPc = "kms"
    /\ \E e \in KMSEnvs :
          LET r == ResolveKMS(e) IN
          /\ kmsEnv' = e
          /\ GlobalKMS' = r.kms
          /\ kmsAssigned' = r.assigned
          /\ kmsSteps' = r.steps
          /\ envLog' = envLog \o r.log
          /\ envFatal' = r.fatal
          /\ envPc' = IF r.fatal = NoFatal THEN "done" ELSE "fatal"
    /\ UNCHANGED <<domains, globalDomainNames, publicIPs, addrs, domainIPs, ipsUpdated>>

----------------------------------------------------------------------------
(* newConfigDirFromCtx (lines 154-193) *)

Paths == {"", "/a", "/b", "c"}
AbsolutePaths == {"/a", "/b"}
Contexts == [isSet : BOOLEAN, string : Paths,
             globalIsSet : BOOLEAN, globalString : Paths,
             parentGlobalIsSet : BOOLEAN, parentGlobalString : Paths]

\* filepath.Abs: an absolute path is kept, a relative one is joined to the
\* working directory.
FilepathAbs(p) == IF p \in AbsolutePaths THEN p ELSE "/cwd/" \o p

\* Lines 158-180: the switch.
SelectDirNoWorkaround(c, def) ==
    IF c.isSet THEN [dir |-> c.string, dirSet |-> TRUE, fatal |-> NoFatal]
    ELSE IF c.globalIsSet
    THEN IF c.globalString = "" \/ c.globalString = def
         THEN [dir |-> def, dirSet |-> FALSE, fatal |-> NoFatal]
         ELSE [dir |-> c.globalString, dirSet |-> TRUE, fatal |-> NoFatal]
    ELSE [dir |-> def, dirSet |-> FALSE,
          fatal |-> IF def = "" THEN "option must be provided" ELSE NoFatal]

SelectDir(c, def) ==
    IF c.isSet THEN [dir |-> c.string, dirSet |-> TRUE, fatal |-> NoFatal]
    ELSE IF c.globalIsSet
    THEN IF c.globalString = "" \/ c.globalString = def
         THEN IF c.parentGlobalIsSet
              THEN [dir |-> c.parentGlobalString, dirSet |-> TRUE, fatal |-> NoFatal]
              ELSE [dir |-> c.globalString, dirSet |-> FALSE, fatal |-> NoFatal]
         ELSE [dir |-> c.globalString, dirSet |-> TRUE, fatal |-> NoFatal]
    ELSE [dir |-> def, dirSet |-> FALSE,
          fatal |-> IF def = "" THEN "option must be provided" ELSE NoFatal]

\* Lines 154-193.
newConfigDirFromCtx(c, def, abs, mkdir) ==
    LET sel == SelectDir(c, def)
        none == [path |-> "", dirSet |-> FALSE, fatal |-> NoFatal]
    IN IF sel.fatal # NoFatal THEN [none EXCEPT !.fatal = sel.fatal]
       ELSE IF sel.dir = "" THEN [none EXCEPT !.fatal = "directory cannot be empty"]
       ELSE IF ~abs THEN [none EXCEPT !.fatal = "Unable to fetch absolute path"]
       ELSE IF ~mkdir THEN [none EXCEPT !.fatal = "Unable to create directory"]
       ELSE [path |-> FilepathAbs(sel.dir), dirSet |-> sel.dirSet, fatal |-> NoFatal]

DirInit ==
    /\ dirPc = "call"
    /\ ctx \in Contexts
    /\ defaultDir \in Paths
    /\ absOk \in BOOLEAN
    /\ mkdirOk \in BOOLEAN
    /\ dirPath = ""
    /\ dirSet = FALSE
    /\ dirFatal = NoFatal

ResolveDir ==
    /\ dirPc = "call"
    /\ LET r == newConfigDirFromCtx(ctx, defaultDir, absOk, mkdirOk) IN
       /\ dirPath' = r.path
       /\ dirSet' = r.dirSet
       /\ dirFatal' = r.fatal
       /\ dirPc' = IF r.fatal = NoFatal THEN "returned" ELSE "fatal"
    /\ UNCHANGED <<ctx, defaultDir, absOk, mkdirOk>>

----------------------------------------------------------------------------
(* getTLSConfig (lines 394-470) *)

CAs == <<"C", "A", "s">>
DotDot == <<".", ".">>
RootLabel == <<>>
EntryNames == {CAs, <<".", ".", "d">>, <<"a", ".", "c">>, <<"b", ".", "c">>}

\* An entry of the certs root: its name, what Readdir reports for it, what a
\* symbolic link resolves to, and - for a directory - whether it holds
\* public.crt and private.key as files and whether that pair loads.
IsDirectory(e) == e.mode = "dir" \/ (e.mode = "symlink" /\ e.target = "dir")

Entries ==
    {e \in [name : EntryNames, mode : {"regular", "dir", "symlink", "other"},
            target : {"none", "dir", "file", "broken"},
            cert : BOOLEAN, key : BOOLEAN, loads : BOOLEAN] :
        /\ (e.mode = "symlink") <=> (e.target # "none")
        /\ (e.cert \/ e.key) => IsDirectory(e)
        /\ e.loads <=> (e.cert /\ e.key /\ e.loads)}

Listings ==
    {l \in SeqsUpTo(Entries, MaxEntries) :
        \A i, j \in 1..Len(l) : i # j => l[i].name # l[j].name}

\* isFile on <root>/<entry>/public.crt and <root>/<entry>/private.key.
isFile(e, f) == IsDirectory(e) /\ e[f]

\* Line 395: the root pair is present.
RootPairEither == rootPublicCert \/ rootPrivateKey

RootPair == rootPublicCert /\ rootPrivateKey

\* Line 442: entries ignored by mode or name.
IgnoredExceptCAs(e) == e.mode = "regular" \/ HasPrefix(e.name, DotDot)

Ignored(e) == e.mode = "regular" \/ e.name = CAs \/ HasPrefix(e.name, DotDot)

\* manager.AddCertificate on the pair of entry e: nil or an error.
AddCertificate(e) == IF e.loads THEN "" ELSE "malformed certificate or key"

\* Lines 442-466 for one entry: what the loop body does with it.
ScanEntry(e) ==
    IF Ignored(e) THEN "ignored"
    ELSE IF e.mode = "symlink" /\ e.target = "broken" THEN "stat error"
    ELSE IF e.mode = "symlink" /\ e.target # "dir" THEN "not a directory"
    ELSE IF ~isFile(e, "cert") \/ ~isFile(e, "key") THEN "incomplete"
    ELSE IF AddCertificate(e) # "" THEN "add error"
    ELSE "added"

\* Lines 460-466: the outcomes logger.LogIf is called for.
LoggedWithIncomplete(outcome) == outcome \in {"add error", "incomplete"}

Logged(outcome) == outcome = "add error"

NoResult == [returned |-> FALSE, x509Certs |-> FALSE, manager |-> FALSE,
             secureConn |-> FALSE, err |-> ""]

TLSInit ==
    /\ tlsPc = "start"
    /\ rootPublicCert \in BOOLEAN
    /\ rootPrivateKey \in BOOLEAN
    /\ files \in Listings
    /\ idx = 1
    /\ manager = {}
    /\ managerBuilt = FALSE
    /\ attempted = {}
    /\ examined = <<>>
    /\ tlsLog = <<>>
    /\ err = ""
    /\ ret = NoResult

\* Lines 395-397.
TLSNotConfigured ==
    /\ tlsPc = "start"
    /\ ~RootPair
    /\ ret' = [NoResult EXCEPT !.returned = TRUE]
    /\ tlsPc' = "returned"
    /\ UNCHANGED <<rootPublicCert, rootPrivateKey, files, idx, manager, managerBuilt,
                   attempted, examined, tlsLog, err>>

\* Lines 399-436: parse the root certificate, build the manager, open and
\* enumerate the certs root; each may fail.
TLSLoadRoot ==
    /\ tlsPc = "start"
    /\ RootPair
    /\ \E failure \in {"", "parse error", "manager error", "open error", "readdir error"} :
          /\ err' = failure
          /\ managerBuilt' = (failure \in {"", "open error", "readdir error"})
          /\ manager' = IF managerBuilt' THEN {RootLabel} ELSE {}
          /\ IF failure = ""
             THEN /\ tlsPc' = "scan"
                  /\ ret' = ret
             ELSE /\ tlsPc' = "returned"
                  /\ ret' = [NoResult EXCEPT !.returned = TRUE, !.err = failure]
    /\ UNCHANGED <<rootPublicCert, rootPrivateKey, files, idx, attempted, examined,
                   tlsLog>>

\* Lines 437-467: one iteration of the loop, which returns the first
\* AddCertificate error.
TLSScanAbortOnError ==
    /\ tlsPc = "scan"
    /\ idx <= Len(files)
    /\ LET e == files[idx]
           outcome == ScanEntry(e)
       IN /\ examined' = Append(examined, e.name)
          /\ attempted' = IF outcome \in {"added", "add error"}
                          THEN attempted \cup {e.name} ELSE attempted
          /\ manager' = IF outcome = "added" THEN manager \cup {e.name} ELSE manager
          /\ tlsLog' = IF Logged(outcome) THEN Append(tlsLog, e.name) ELSE tlsLog
          /\ err' = CASE outcome = "stat error" -> "stat error"
                      [] outcome = "add error" -> "Unable to load TLS certificate"
                      [] outcome = "added" -> ""
                      [] OTHER -> err
          /\ IF outcome = "add error"
             THEN /\ tlsPc' = "returned"
                  /\ ret' = [NoResult EXCEPT !.returned = TRUE, !.err = err']
                  /\ idx' = idx
             ELSE /\ idx' = idx + 1
                  /\ UNCHANGED <<tlsPc, ret>>
    /\ UNCHANGED <<rootPublicCert, rootPrivateKey, files, managerBuilt>>

\* Lines 437-467: one iteration of the loop.
TLSScan ==
    /\ tlsPc = "scan"
    /\ idx <= Len(files)
    /\ LET e == files[idx]
           outcome == ScanEntry(e)
       IN /\ examined' = Append(examined, e.name)
          /\ attempted' = IF outcome \in {"added", "add error"}
                          THEN attempted \cup {e.name} ELSE attempted
          /\ manager' = IF outcome = "added" THEN manager \cup {e.name} ELSE manager
          /\ tlsLog' = IF Logged(outcome) THEN Append(tlsLog, e.name) ELSE tlsLog
          /\ err' = CASE outcome = "stat error" -> "stat error"
                      [] outcome = "add error" -> "Unable to load TLS certificate"
                      [] outcome = "added" -> ""
                      [] OTHER -> err
    /\ idx' = idx + 1
    /\ UNCHANGED <<tlsPc, rootPublicCert, rootPrivateKey, files, managerBuilt, ret>>

\* Lines 468-469.
TLSReturn ==
    /\ tlsPc = "scan"
    /\ idx > Len(files)
    /\ ret' = [returned |-> TRUE, x509Certs |-> TRUE, manager |-> managerBuilt,
               secureConn |-> TRUE, err |-> ""]
    /\ tlsPc' = "returned"
    /\ UNCHANGED <<rootPublicCert, rootPrivateKey, files, idx, manager, managerBuilt,
                   attempted, examined, tlsLog, err>>

----------------------------------------------------------------------------
(* Specifications: one per function; the state of the others is at rest. *)

EnvIdle ==
    /\ envPc = "idle"
    /\ domains = <<>>
    /\ globalDomainNames = <<>>
    /\ publicIPs = <<>>
    /\ addrs = NotLookedUp
    /\ domainIPs = {}
    /\ ipsUpdated = FALSE
    /\ kmsEnv = NoKMSEnv
    /\ GlobalKMS = "None"
    /\ kmsAssigned = 0
    /\ kmsSteps = <<>>
    /\ envFatal = NoFatal
    /\ envLog = <<>>

DirIdle ==
    /\ dirPc = "idle"
    /\ ctx = [isSet |-> FALSE, string |-> "", globalIsSet |-> FALSE, globalString |-> "",
              parentGlobalIsSet |-> FALSE, parentGlobalString |-> ""]
    /\ defaultDir = ""
    /\ absOk = TRUE
    /\ mkdirOk = TRUE
    /\ dirPath = ""
    /\ dirSet = FALSE
    /\ dirFatal = NoFatal

TLSIdle ==
    /\ tlsPc = "idle"
    /\ rootPublicCert = FALSE
    /\ rootPrivateKey = FALSE
    /\ files = <<>>
    /\ idx = 1
    /\ manager = {}
    /\ managerBuilt = FALSE
    /\ attempted = {}
    /\ examined = <<>>
    /\ tlsLog = <<>>
    /\ err = ""
    /\ ret = NoResult

InitEnv == EnvInit /\ DirIdle /\ TLSIdle
NextEnv ==
    \/ EnvFlags /\ UNCHANGED <<dirVars, tlsVars>>
    \/ EnvDomains /\ UNCHANGED <<dirVars, tlsVars>>
    \/ EnvPublicIPs /\ UNCHANGED <<dirVars, tlsVars>>
    \/ EnvLocalIPs /\ UNCHANGED <<dirVars, tlsVars>>
    \/ EnvCredentials /\ UNCHANGED <<dirVars, tlsVars>>
    \/ EnvKMS /\ UNCHANGED <<dirVars, tlsVars>>
SpecEnv == InitEnv /\ [][NextEnv]_vars

InitDir == DirInit /\ EnvIdle /\ TLSIdle
NextDir == ResolveDir /\ UNCHANGED <<envVars, tlsVars>>
SpecDir == InitDir /\ [][NextDir]_vars

InitTLS == TLSInit /\ EnvIdle /\ DirIdle
NextTLS ==
    \/ TLSNotConfigured /\ UNCHANGED <<envVars, dirVars>>
    \/ TLSLoadRoot /\ UNCHANGED <<envVars, dirVars>>
    \/ TLSScan /\ UNCHANGED <<envVars, dirVars>>
    \/ TLSReturn /\ UNCHANGED <<envVars, dirVars>>
SpecTLS == InitTLS /\ [][NextTLS]_vars

----------------------------------------------------------------------------
(* Properties of the KMS section of handleCommonEnvVars *)

\* C1: whenever KES_ENDPOINT is set together with KMS_SECRET_KEY or with
\* KMS_MASTER_KEY, the process ends in the fatal "ambiguous KMS configuration"
\* state, GlobalKMS is never assigned, no key is parsed and no backend is built
\* before the check, and the secret-key/endpoint check is the one reported when
\* both apply.
C1_AmbiguousIsFatal ==
    (IsSet(kmsEnv.kesEndpoint) /\ (IsSet(kmsEnv.secretKey) \/ IsSet(kmsEnv.masterKey)))
    => /\ envPc = "fatal"
       /\ envFatal = IF IsSet(kmsEnv.secretKey) THEN AmbiguousSecret ELSE AmbiguousMaster
       /\ GlobalKMS = "None"
       /\ kmsAssigned = 0
       /\ kmsSteps = <<>>
       /\ envLog = <<>>

C1_Witness ==
    /\ IsSet(kmsEnv.kesEndpoint) /\ IsSet(kmsEnv.secretKey) /\ IsSet(kmsEnv.masterKey)
    /\ envPc = "fatal"
    /\ envFatal = AmbiguousSecret

\* C2: when the KMS section ends without a fatal error, exactly one selection
\* step has decided GlobalKMS, which is assigned at most once: StaticSecret if the
\* secret key is set, else LegacyMasterKey if the master key is set, else
\* RemoteEndpoint if the KES endpoint is set, else None with GlobalKMS left
\* unassigned; and the KES block never runs after another block.
C2_ExactlyOneSelection ==
    /\ envPc = "done" =>
          LET selected == IF IsSet(kmsEnv.secretKey) THEN "StaticSecret"
                          ELSE IF IsSet(kmsEnv.masterKey) THEN "LegacyMasterKey"
                          ELSE IF IsSet(kmsEnv.kesEndpoint) THEN "RemoteEndpoint"
                          ELSE "None"
          IN /\ GlobalKMS = selected
             /\ kmsSteps = IF selected = "None" THEN <<>> ELSE <<selected>>
             /\ kmsAssigned = IF selected = "None" THEN 0 ELSE 1
    /\ kmsAssigned <= 1
    /\ \A i \in 1..Len(kmsSteps) : kmsSteps[i] = "RemoteEndpoint" => i = 1

C2_Witness ==
    /\ envPc = "done"
    /\ IsSet(kmsEnv.secretKey) /\ IsSet(kmsEnv.masterKey)
    /\ GlobalKMS = "StaticSecret"
    /\ kmsAssigned = 1

----------------------------------------------------------------------------
(* Properties of newConfigDirFromCtx *)

FatalCauseOK(selected) ==
    /\ dirFatal \in {"option must be provided", "directory cannot be empty",
                     "Unable to fetch absolute path", "Unable to create directory"}
    /\ dirFatal = "option must be provided" =>
          (defaultDir = "" /\ ~ctx.isSet /\ ~ctx.globalIsSet)
    /\ dirFatal = "directory cannot be empty" => selected = ""
    /\ dirFatal = "Unable to fetch absolute path" => ~absOk
    /\ dirFatal = "Unable to create directory" => ~mkdirOk

\* C3 as stated: three-level precedence - the value of the immediate scope; else
\* the inherited value when it is non-empty and differs from the default; else
\* the default with wasExplicit = false - and only the four fatal outcomes.
C3_ThreeLevelPrecedence ==
    LET level == IF ctx.isSet THEN <<ctx.string, TRUE>>
                 ELSE IF ctx.globalIsSet /\ ctx.globalString # ""
                         /\ ctx.globalString # defaultDir
                 THEN <<ctx.globalString, TRUE>>
                 ELSE <<defaultDir, FALSE>>
    IN /\ dirPc = "returned" => (dirPath = FilepathAbs(level[1]) /\ dirSet = level[2])
       /\ dirPc = "fatal" => FatalCauseOK(level[1])

\* C3 amended: as stated, except that an inherited value that is empty or equals
\* the default falls back to the parent context: its value with wasExplicit =
\* true when the parent reports the option set, else the inherited value itself
\* (empty, hence fatal, or equal to the default) with wasExplicit = false.
C3_PrecedenceWithParent ==
    LET falsePositive == ctx.globalString = "" \/ ctx.globalString = defaultDir
        level == CASE ctx.isSet -> <<ctx.string, TRUE>>
                   [] ~ctx.isSet /\ ctx.globalIsSet /\ ~falsePositive
                        -> <<ctx.globalString, TRUE>>
                   [] ~ctx.isSet /\ ctx.globalIsSet /\ falsePositive
                      /\ ctx.parentGlobalIsSet
                        -> <<ctx.parentGlobalString, TRUE>>
                   [] ~ctx.isSet /\ ctx.globalIsSet /\ falsePositive
                      /\ ~ctx.parentGlobalIsSet
                        -> <<ctx.globalString, FALSE>>
                   [] OTHER -> <<defaultDir, FALSE>>
    IN /\ dirPc = "returned" => (dirPath = FilepathAbs(level[1]) /\ dirSet = level[2])
       /\ dirPc = "fatal" => FatalCauseOK(level[1])
       /\ (dirPc # "call" /\ level[1] # "" /\ absOk /\ mkdirOk) => dirPc = "returned"

C3_Witness ==
    /\ dirPc = "returned"
    /\ ~ctx.isSet /\ ctx.globalIsSet /\ ctx.parentGlobalIsSet
    /\ ctx.globalString = defaultDir
    /\ ctx.parentGlobalString = "c"
    /\ dirPath = "/cwd/c"
    /\ dirSet

----------------------------------------------------------------------------
(* Properties of the domain section of handleCommonEnvVars *)

\* a is a proper DNS suffix of b, as example.com is of eu.example.com.
SuffixOverlap(a, b) == HasSuffix(b, <<".">> \o a)

DomainsValidated == envPc \in {"publicIPs", "credentials", "kms", "done"}

\* C4: once domain validation has completed without a fatal error and left more
\* than one domain, no domain of globalDomainNames is a suffix of another.
C4_NoSuffixOverlap ==
    (DomainsValidated /\ Len(globalDomainNames) > 1)
    => \A i, j \in 1..Len(globalDomainNames) :
          i # j => ~SuffixOverlap(globalDomainNames[i], globalDomainNames[j])

Suffixes(s) == {SubSeq(s, k, Len(s)) : k \in 1..(Len(s) + 1)}

\* The longest string that is a suffix of every member of the list.
LongestCommonSuffix(list) ==
    LET common == {x \in Suffixes(list[1]) : \A i \in 1..Len(list) : HasSuffix(list[i], x)}
    IN CHOOSE x \in common : \A y \in common : Len(y) <= Len(x)

Count(list, x) == Cardinality({i \in 1..Len(list) : list[i] = x})

SortedPermutation(out, in) ==
    /\ Len(out) = Len(in)
    /\ \A x \in Range(in) \cup Range(out) : Count(out, x) = Count(in, x)
    /\ \A i \in 1..(Len(out) - 1) : ~StrLess(out[i + 1], out[i])

\* C5: for a non-empty list of well-formed domains the overlapping-domains error
\* is reported exactly when the list has more than one member and the longest
\* common suffix of all members equals one of them; otherwise validation
\* succeeds and globalDomainNames is the list in lexicographic order.
C5_OverlapOutcome ==
    (domains # <<>> /\ \A i \in 1..Len(domains) : IsDomainName(domains[i]))
    => LET overlap == /\ Len(domains) > 1
                      /\ LongestCommonSuffix(domains) \in Range(domains)
       IN /\ overlap => (envPc = "fatal" /\ envFatal = "Overlapping domains not allowed")
          /\ ~overlap => /\ envPc = "publicIPs"
                         /\ envFatal = NoFatal
                         /\ SortedPermutation(globalDomainNames, domains)

C5_Witness ==
    /\ domains = << <<"b", ".", "c">>, <<"c">>, <<"a", ".", "c">> >>
    /\ envPc = "fatal"
    /\ envFatal = "Overlapping domains not allowed"

----------------------------------------------------------------------------
(* Properties of the public-IP section of handleCommonEnvVars *)

\* C6: with MINIO_PUBLIC_IPS set, the set handed to updateDomainIPs is exactly
\* the literal IP tokens plus the addresses every other token resolves to, so it
\* holds IP addresses only; a failed lookup is fatal and publishes nothing.
C6_OnlyAddresses ==
    publicIPs # <<>>
    => LET failed == \E i \in 1..Len(publicIPs) :
                        ~ParseIP(publicIPs[i]) /\ addrs[publicIPs[i]] = LookupError
       IN /\ failed => (envPc = "fatal" /\ ~ipsUpdated)
          /\ ~failed =>
                /\ ipsUpdated
                /\ domainIPs = {t \in Range(publicIPs) : ParseIP(t)}
                      \cup UNION {addrs[t] : t \in {u \in Range(publicIPs) : ~ParseIP(u)}}
                /\ domainIPs \subseteq IPs

----------------------------------------------------------------------------
(* Properties of getTLSConfig *)

FileNames == [i \in 1..Len(files) |-> files[i].name]

\* The loop has run to its end and the function has returned from line 469.
ScanCompleted == tlsPc = "returned" /\ RootPair /\ ret.err = ""

Incomplete(e) == IsDirectory(e) /\ (e.cert # e.key)
Complete(e) == IsDirectory(e) /\ e.cert /\ e.key

IncompleteHandling(warnings) ==
    (tlsPc = "returned" /\ rootPublicCert /\ rootPrivateKey
        /\ ret.err \notin {"parse error", "manager error", "open error", "readdir error"})
    => /\ ret.err = ""
       /\ ret.secureConn
       /\ RootLabel \in manager
       /\ manager \subseteq {RootLabel} \cup {files[i].name : i \in {j \in 1..Len(files) : Complete(files[j])}}
       /\ \A i \in 1..Len(files) :
             Incomplete(files[i]) =>
                /\ files[i].name \notin attempted
                /\ files[i].name \notin manager
                /\ Count(tlsLog, files[i].name) = warnings

\* C7 as stated: with a valid root pair, a subdirectory holding only one of
\* public.crt / private.key does not fail the load, is never handed to
\* AddCertificate, is not in the manager, and gets exactly one warning.
C7_IncompleteWarned == IncompleteHandling(1)

\* C7 amended: the same, except that no warning is logged for the incomplete
\* subdirectory: it is skipped silently.
C7_IncompleteSkippedSilently == IncompleteHandling(0)

C7_Witness ==
    /\ ScanCompleted
    /\ Len(files) = 2
    /\ files[1].name = <<"b", ".", "c">> /\ files[1].mode = "dir"
    /\ files[1].cert /\ ~files[1].key
    /\ files[2].name = <<"a", ".", "c">> /\ files[2].loads
    /\ manager = {RootLabel, <<"a", ".", "c">>}
    /\ tlsLog = <<>>

\* C8: without both root files getTLSConfig returns (nil, nil, false, nil) and
\* parses nothing, builds no manager and enumerates nothing, whatever the
\* subdirectories hold; and secureConn = true comes only with a manager and a
\* nil error.
C8_NotConfigured ==
    /\ (tlsPc = "returned" /\ ~(rootPublicCert /\ rootPrivateKey))
       => /\ ret = [returned |-> TRUE, x509Certs |-> FALSE, manager |-> FALSE,
                    secureConn |-> FALSE, err |-> ""]
          /\ ~managerBuilt
          /\ manager = {}
          /\ examined = <<>>
          /\ attempted = {}
          /\ err = ""
    /\ ret.secureConn => (ret.manager /\ ret.x509Certs /\ ret.err = "")
    /\ tlsPc = "scan" => (rootPublicCert /\ rootPrivateKey)

C8_Witness ==
    /\ tlsPc = "returned"
    /\ rootPublicCert /\ ~rootPrivateKey
    /\ \E i \in 1..Len(files) : Complete(files[i]) /\ files[i].loads /\ ~Ignored(files[i])
    /\ ~ret.secureConn

\* C9: an AddCertificate failure is logged and neither ends the loop nor becomes
\* the result: every entry is examined, every other complete and loadable
\* subdirectory is added wherever it comes in the enumeration, and the function
\* returns secureConn = true with a nil error; the only errors returned are those
\* of the root certificate, the manager, and opening or reading the root.
C9_FailureIsolation ==
    /\ tlsPc = "returned" =>
          ret.err \in {"", "parse error", "manager error", "open error", "readdir error"}
    /\ (tlsPc = "returned" /\ managerBuilt /\ ret.err \notin {"open error", "readdir error"})
       => /\ ret.secureConn
          /\ ret.err = ""
          /\ examined = FileNames
          /\ \A i \in 1..Len(files) :
                (Complete(files[i]) /\ ~Ignored(files[i])) =>
                   /\ files[i].loads => files[i].name \in manager
                   /\ ~files[i].loads =>
                         (files[i].name \notin manager /\ Count(tlsLog, files[i].name) = 1)
    /\ tlsPc = "scan" => examined = SubSeq(FileNames, 1, idx - 1)

C9_Witness ==
    /\ tlsPc = "returned"
    /\ ret.secureConn
    /\ Len(files) = 2
    /\ Complete(files[1]) /\ ~Ignored(files[1]) /\ ~files[1].loads
    /\ tlsLog = <<files[1].name>>
    /\ files[2].name \in manager

\* C10: AddCertificate is attempted for exactly the entries that are not regular
\* files, are not named "CAs", do not begin with "..", are a directory or a link
\* to one, and hold both files; the name rules apply to a link before it is
\* resolved, and a link that does not resolve to a directory is skipped without
\* an error or a log.
Candidate(e) ==
    /\ e.mode # "regular"
    /\ e.name # CAs
    /\ ~(e.name[1] = "." /\ e.name[2] = ".")
    /\ (e.mode = "dir" \/ (e.mode = "symlink" /\ e.target = "dir"))
    /\ e.cert /\ e.key

C10_ScanFilter ==
    tlsPc \in {"scan", "returned"}
    => /\ attempted = {files[i].name : i \in {j \in 1..Len(examined) : Candidate(files[j])}}
       /\ \A i \in 1..Len(examined) :
             (files[i].mode = "symlink" /\ files[i].target # "dir")
                => (files[i].name \notin Range(tlsLog) /\ files[i].name \notin manager)
       /\ (Len(examined) = 1 /\ files[1].mode = "symlink"
              /\ (files[1].name = CAs \/ HasPrefix(files[1].name, DotDot)))
          => err = ""
       /\ ScanCompleted => ret.secureConn

C10_Witness ==
    /\ ScanCompleted
    /\ Len(files) = 2
    /\ files[1].name = CAs /\ files[1].mode = "symlink" /\ Complete(files[1])
    /\ files[2].mode = "symlink" /\ Complete(files[2])
    /\ attempted = {files[2].name}

====
